---------------------------- MODULE Spec2Model ----------------------------
(***************************************************************************)
(* Model of moosefs_exporter.py (MooseFSExporter): the three collectors,   *)
(* the scheduler loop of run(), and the gauges they write.                 *)
(*                                                                         *)
(* Command output is text (a TLA+ string).  The regular expressions of the *)
(* source are kept as strings and interpreted by ReCompile / GreedyEnds,   *)
(* the greedy backtracking match for the constructs the source uses:       *)
(* literals, \d \s \w \S, '.', a bracket class, the quantifiers + and *,   *)
(* and capture groups.  Gauge values are exact decimal numerals written as *)
(* strings ("536870912", "60.25"): Python's floats are modelled by exact   *)
(* decimal arithmetic, which is what they print as for the inputs used     *)
(* (few fraction digits, far below 2^53).                                  *)
(***************************************************************************)
EXTENDS Integers, Sequences, FiniteSets, TLC

VARIABLES
    pc,        \* where the scheduler thread of run() stands
    reg,       \* the gauges: metric name -> (label tuple -> value)
    out,       \* what each collector returned in the current cycle
    last,      \* the collector call made last: what its command did, what
               \* it returned, the gauge writes it made and what it logged
    todo,      \* the gauge calls the running collector has still to make
    scraped,   \* what the latest scrape of the exposition server read
    running    \* the collectors whose command is in flight: spawned by
               \* subprocess.run and not yet reaped

vars == <<pc, reg, out, last, todo, scraped, running>>

---------------------------------------------------------------------------
(* Characters and text *)

Ch(s, i) == SubSeq(s, i, i)

CharsOf(s) == {Ch(s, i) : i \in 1..Len(s)}

DigitChars == CharsOf("0123456789")

\* Python's \s on the ASCII range: space, \t, \n, \r, \f (and \v, which no
\* sampled text contains).
SpaceChars == CharsOf(" \t\n\r\f")

\* Python's \w on the ASCII range.
WordChars ==
    CharsOf("abcdefghijklmnopqrstuvwxyzABCDEFGHIJKLMNOPQRSTUVWXYZ_") \cup DigitChars

Min(S) == CHOOSE x \in S : \A y \in S : x <= y

Max(S) == CHOOSE x \in S : \A y \in S : x >= y

Range(f) == {f[x] : x \in DOMAIN f}

---------------------------------------------------------------------------
(* Regular expressions: re.search and re.findall *)

\* The number of backslashes that stand right before position i of p.
BackslashesBefore(p, i) ==
    CHOOSE n \in 0..(i - 1) :
        /\ \A j \in 1..n : Ch(p, i - j) = "\\"
        /\ n = i - 1 \/ Ch(p, i - n - 1) # "\\"

\* The character at i is escaped by a backslash.
Escaped(p, i) == BackslashesBefore(p, i) % 2 = 1

\* Position i of p lies inside a bracket class, after its "[".
InClass(p, i) ==
    \E j \in 1..(i - 1) :
        /\ Ch(p, j) = "["
        /\ ~Escaped(p, j)
        /\ \A m \in (j + 1)..(i - 1) : Ch(p, m) # "]"

\* An atom starts at position i of p: at a character that is not escaped,
\* not inside a class, and neither parenthesis nor quantifier.
AtomStart(p, i) ==
    /\ Ch(p, i) \notin {"(", ")", "+", "*"}
    /\ ~Escaped(p, i)
    /\ ~InClass(p, i)

\* The position of the last character of the atom that starts at i.
AtomEnd(p, i) ==
    CASE Ch(p, i) = "\\" -> i + 1
      [] Ch(p, i) = "["  -> CHOOSE j \in (i + 1)..Len(p) :
                                /\ Ch(p, j) = "]"
                                /\ \A m \in (i + 1)..(j - 1) : Ch(p, m) # "]"
      [] OTHER           -> i

\* The quantifier at position j of pattern p ("1": none).
QuantifierAt(p, j) ==
    IF j <= Len(p) /\ Ch(p, j) \in {"+", "*"} THEN Ch(p, j) ELSE "1"

\* The parentheses c of p before position i.
ParensBefore(p, i, c) == {j \in 1..(i - 1) : Ch(p, j) = c /\ ~Escaped(p, j)}

\* The capture group position i stands in (0: none; the groups of the
\* source's patterns are not nested).
GroupAt(p, i) ==
    IF Cardinality(ParensBefore(p, i, "(")) > Cardinality(ParensBefore(p, i, ")"))
    THEN Cardinality(ParensBefore(p, i, "("))
    ELSE 0

\* The atom [k: kind, c: literal or class members, q: quantifier, g: capture
\* group] that starts at position i and ends at position e of p.
AtomAt(p, i, e) ==
    [k |-> CASE Ch(p, i) = "\\" ->
                    (IF Ch(p, e) \in {"d", "s", "w", "S"} THEN Ch(p, e) ELSE "lit")
             [] Ch(p, i) = "["  -> "set"
             [] Ch(p, i) = "."  -> "any"
             [] OTHER           -> "lit",
     c |-> IF Ch(p, i) = "[" THEN SubSeq(p, i + 1, e - 1) ELSE Ch(p, e),
     q |-> QuantifierAt(p, e + 1),
     g |-> GroupAt(p, i)]

\* The atoms of p that start at positions lo..hi, left to right.
RECURSIVE AtomsIn(_, _, _)
AtomsIn(p, lo, hi) ==
    IF lo > hi THEN << >>
    ELSE IF lo = hi
    THEN (IF AtomStart(p, lo) THEN <<AtomAt(p, lo, AtomEnd(p, lo))>> ELSE << >>)
    ELSE AtomsIn(p, lo, (lo + hi) \div 2) \o AtomsIn(p, (lo + hi) \div 2 + 1, hi)

\* re.compile(p): the pattern as a sequence of atoms.
ReCompile(p) == AtomsIn(p, 1, Len(p))

\* Whether character c is matched by atom a.
AtomAccepts(a, c) ==
    CASE a.k = "lit" -> c = a.c
      [] a.k = "d"   -> c \in DigitChars
      [] a.k = "s"   -> c \in SpaceChars
      [] a.k = "w"   -> c \in WordChars
      [] a.k = "S"   -> c \notin SpaceChars
      [] a.k = "any" -> c # "\n"
      [] a.k = "set" -> c \in CharsOf(a.c)

\* Length of the longest run of characters of t from pos on that a accepts.
RunLength(a, t, pos) ==
    CHOOSE n \in 0..(Len(t) - pos + 1) :
        /\ \A i \in 0..(n - 1) : AtomAccepts(a, Ch(t, pos + i))
        /\ pos + n > Len(t) \/ ~AtomAccepts(a, Ch(t, pos + n))

\* The positions at which atom a can end when it starts at pos: one
\* character on, or any number of repetitions its quantifier allows.
Ends(a, t, pos) ==
    IF a.q = "1"
    THEN (IF pos <= Len(t) /\ AtomAccepts(a, Ch(t, pos)) THEN {pos + 1} ELSE {})
    ELSE (pos + (IF a.q = "+" THEN 1 ELSE 0))..(pos + RunLength(a, t, pos))

\* The positions at which atoms lo..hi of re can end when atom lo starts at
\* one of the positions S.
RECURSIVE Reach(_, _, _, _, _)
Reach(re, lo, hi, t, S) ==
    IF S = {} \/ lo > hi THEN S
    ELSE IF lo = hi THEN UNION {Ends(re[lo], t, pos) : pos \in S}
    ELSE Reach(re, (lo + hi) \div 2 + 1, hi, t, Reach(re, lo, (lo + hi) \div 2, t, S))

\* Atoms k.. of re match t from pos on.
MatchesFrom(re, k, t, pos) == Reach(re, k, Len(re), t, {pos}) # {}

\* The last of the positions q, q - 1, ... from which atoms k + 1.. match:
\* a quantified atom k takes the longest run first and gives characters
\* back one at a time (greedy backtracking).
RECURSIVE Longest(_, _, _, _)
Longest(re, k, t, q) ==
    IF MatchesFrom(re, k + 1, t, q) THEN q ELSE Longest(re, k, t, q - 1)

\* Where atom k ends in the match the backtracking matcher finds first for
\* atoms k.. at pos (there is one).
GreedyEnd(re, k, t, pos) ==
    IF re[k].q = "1" THEN pos + 1
    ELSE Longest(re, k, t, pos + RunLength(re[k], t, pos))

\* The ends of atoms lo..hi in that match, atom lo starting at pos.
\* GreedyThen: the ends of atoms lo..hi after those of the atoms before.
RECURSIVE GreedyEnds(_, _, _, _, _)
RECURSIVE GreedyThen(_, _, _, _, _)
GreedyEnds(re, lo, hi, t, pos) ==
    IF lo = hi THEN <<GreedyEnd(re, lo, t, pos)>>
    ELSE GreedyThen(re, (lo + hi) \div 2 + 1, hi, t,
                    GreedyEnds(re, lo, (lo + hi) \div 2, t, pos))

GreedyThen(re, lo, hi, t, left) ==
    left \o GreedyEnds(re, lo, hi, t, left[Len(left)])

\* The text of t spanned by the atoms ks of a match that starts at start
\* with atom ends at.
SpanText(t, start, at, ks) ==
    SubSeq(t, IF Min(ks) = 1 THEN start ELSE at[Min(ks) - 1], at[Max(ks)] - 1)

\* match.group(g)
GroupText(re, t, start, at, g) ==
    SpanText(t, start, at, {k \in 1..Len(re) : re[k].g = g})

NGroups(re) == Max({re[k].g : k \in 1..Len(re)} \cup {0})

\* The match of re in t that starts at s with atom ends at:
\* [ok, end: the position after the match, groups: <<group(1), ...>>].
MatchObject(re, t, s, at) ==
    [ok |-> TRUE, end |-> at[Len(re)],
     groups |-> [g \in 1..NGroups(re) |-> GroupText(re, t, s, at, g)]]

\* The leftmost of the matches of re in t that start at one of starts.
LeftmostMatch(re, t, starts) ==
    IF starts = {} THEN [ok |-> FALSE, end |-> 0, groups |-> << >>]
    ELSE MatchObject(re, t, Min(starts), GreedyEnds(re, 1, Len(re), t, Min(starts)))

\* The leftmost match of re in t at or after from.
ReSearchFrom(re, t, from) ==
    LeftmostMatch(re, t, {s \in from..Len(t) : MatchesFrom(re, 1, t, s)})

\* re.search(pattern, text)
ReSearch(pattern, text) == ReSearchFrom(ReCompile(pattern), text, 1)

\* re.findall(pattern, text): the group tuples of the successive
\* non-overlapping matches, left to right.  FindAllAfter: m and what follows.
RECURSIVE ReFindAllFrom(_, _, _)
RECURSIVE FindAllAfter(_, _, _)
ReFindAllFrom(re, t, from) == FindAllAfter(re, t, ReSearchFrom(re, t, from))

FindAllAfter(re, t, m) ==
    IF m.ok THEN <<m.groups>> \o ReFindAllFrom(re, t, m.end) ELSE << >>

ReFindAll(pattern, text) == ReFindAllFrom(ReCompile(pattern), text, 1)

---------------------------------------------------------------------------
(* Numbers: int(), float() and the unit factors, on decimal numerals *)

DigitVal(c) == CHOOSE d \in 0..9 : Ch("0123456789", d + 1) = c

DigitChar(d) == Ch("0123456789", d + 1)

IsDigits(s) == Len(s) > 0 /\ \A i \in 1..Len(s) : Ch(s, i) \in DigitChars

RECURSIVE StripLeadingZeros(_)
StripLeadingZeros(s) ==
    IF Len(s) > 1 /\ Ch(s, 1) = "0" THEN StripLeadingZeros(SubSeq(s, 2, Len(s)))
    ELSE s

RECURSIVE StripTrailingZeros(_)
StripTrailingZeros(s) ==
    IF Len(s) > 0 /\ Ch(s, Len(s)) = "0" THEN StripTrailingZeros(SubSeq(s, 1, Len(s) - 1))
    ELSE s

WithFraction(i, f) == IF f = "" THEN i ELSE i \o "." \o f

\* The numeral of the number with integer digits ip and fraction digits fp:
\* no leading zeros, no trailing fraction zeros, no point without fraction.
\* Two numerals are the same string exactly when they are the same number.
Numeral(ip, fp) ==
    WithFraction(StripLeadingZeros(IF ip = "" THEN "0" ELSE ip), StripTrailingZeros(fp))

\* Position of the first "." of s (0: none).
DotIndex(s) == Min({i \in 1..Len(s) : Ch(s, i) = "."} \cup {Len(s) + 1}) % (Len(s) + 1)

IntPart(v) == IF DotIndex(v) = 0 THEN v ELSE SubSeq(v, 1, DotIndex(v) - 1)

FracPart(v) == IF DotIndex(v) = 0 THEN "" ELSE SubSeq(v, DotIndex(v) + 1, Len(v))

\* The decimal digits of natural number n.
RECURSIVE NatDigits(_)
NatDigits(n) == IF n < 10 THEN DigitChar(n) ELSE NatDigits(n \div 10) \o DigitChar(n % 10)

\* The digits of (digit string s up to position i) * m + carry.
RECURSIVE MulDigits(_, _, _, _)
MulDigits(s, i, m, carry) ==
    IF i = 0 THEN (IF carry = 0 THEN "" ELSE NatDigits(carry))
    ELSE MulDigits(s, i - 1, m, (DigitVal(Ch(s, i)) * m + carry) \div 10)
         \o DigitChar((DigitVal(Ch(s, i)) * m + carry) % 10)

\* The numeral whose digits are prod, the last n of them fraction digits.
PointBefore(prod, n) ==
    Numeral(SubSeq(prod, 1, Len(prod) - n), SubSeq(prod, Len(prod) - n + 1, Len(prod)))

\* v * m for a non-negative numeral v and a natural number m.
Times(v, m) ==
    PointBefore(MulDigits(IntPart(v) \o FracPart(v), Len(IntPart(v)) + Len(FracPart(v)), m, 0),
                Len(FracPart(v)))

\* A variant with the decimal unit: v * 1000 * ... * 1000 (n factors).
RECURSIVE Times1000(_, _)
Times1000(v, n) == IF n = 0 THEN v ELSE Times1000(Times(v, 1000), n - 1)

\* v * 1024 * ... * 1024 (n factors)
RECURSIVE Times1024(_, _)
Times1024(v, n) == IF n = 0 THEN v ELSE Times1024(Times(v, 1024), n - 1)

Failed == [ok |-> FALSE, v |-> ""]

\* int(s) on the text a pattern captured: [ok, v].  Python's int() also takes
\* a sign, blanks and underscores; a (\d+) capture holds none of them.
PyInt(s) == IF IsDigits(s) THEN [ok |-> TRUE, v |-> Numeral(s, "")] ELSE Failed

\* float() of an unsigned token with integer digits ip and fraction digits fp.
FloatOf(ip, fp) ==
    IF /\ Len(ip) + Len(fp) > 0
       /\ ip = "" \/ IsDigits(ip)
       /\ fp = "" \/ IsDigits(fp)
    THEN [ok |-> TRUE, v |-> Numeral(ip, fp)]
    ELSE Failed

Negated(r) == IF r.ok /\ r.v # "0" THEN [ok |-> TRUE, v |-> "-" \o r.v] ELSE r

\* float(s) for the tokens sampled here: digits with at most one point and
\* an optional sign, anything else raising ValueError ("4.10.0", "n/a").
\* (Python's float() also reads exponents, "inf" and "nan".)
PyFloat(s) ==
    IF Len(s) > 0 /\ Ch(s, 1) = "-"
    THEN Negated(FloatOf(IntPart(SubSeq(s, 2, Len(s))), FracPart(SubSeq(s, 2, Len(s)))))
    ELSE IF Len(s) > 0 /\ Ch(s, 1) = "+"
    THEN FloatOf(IntPart(SubSeq(s, 2, Len(s))), FracPart(SubSeq(s, 2, Len(s))))
    ELSE FloatOf(IntPart(s), FracPart(s))

\* r * 1024^n, when r is a number.
Scaled(r, n) == IF r.ok THEN [ok |-> TRUE, v |-> Times1024(r.v, n)] ELSE Failed

\* The converters of metrics_map and of the two table collectors, by name:
\* float, int, int(x) * 1024 * 1024, float(x) * 1024^2, int(x) * 1024^3,
\* float(x) * 1024^3, float(x) * 1024^4.  The result: [ok, v].
Convert(conv, s) ==
    CASE conv = "float"     -> PyFloat(s)
      [] conv = "int"       -> PyInt(s)
      [] conv = "int_mib"   -> Scaled(PyInt(s), 2)
      [] conv = "float_mib" -> Scaled(PyFloat(s), 2)
      [] conv = "int_gib"   -> Scaled(PyInt(s), 3)
      [] conv = "float_gib" -> Scaled(PyFloat(s), 3)
      [] conv = "float_tib" -> Scaled(PyFloat(s), 4)

\* The digits s with zeros in front, or behind, up to length n.
RECURSIVE PadLeft(_, _)
PadLeft(s, n) == IF Len(s) >= n THEN s ELSE PadLeft("0" \o s, n)

RECURSIVE PadRight(_, _)
PadRight(s, n) == IF Len(s) >= n THEN s ELSE PadRight(s \o "0", n)

\* The digits of (a up to position i) + (b up to position i) + carry, for
\* digit strings a and b of one length.
RECURSIVE AddDigits(_, _, _, _)
AddDigits(a, b, i, carry) ==
    IF i = 0 THEN (IF carry = 0 THEN "" ELSE NatDigits(carry))
    ELSE AddDigits(a, b, i - 1, (DigitVal(Ch(a, i)) + DigitVal(Ch(b, i)) + carry) \div 10)
         \o DigitChar((DigitVal(Ch(a, i)) + DigitVal(Ch(b, i)) + carry) % 10)

\* ai.af + bi.bf, the integer parts padded to il digits and the fractions
\* to fl digits.
PlusAligned(ai, af, bi, bf, il, fl) ==
    PointBefore(AddDigits(PadLeft(ai, il) \o PadRight(af, fl),
                          PadLeft(bi, il) \o PadRight(bf, fl), il + fl, 0), fl)

\* a + b for non-negative numerals.
Plus(a, b) ==
    PlusAligned(IntPart(a), FracPart(a), IntPart(b), FracPart(b),
                Max({Len(IntPart(a)), Len(IntPart(b))}),
                Max({Len(FracPart(a)), Len(FracPart(b))}))

---------------------------------------------------------------------------
(* The gauges (prometheus_client.Gauge) *)

\* The twelve gauges without labels, in the order of metrics_map.
SystemGauges ==
    << "moosefs_master_version", "moosefs_ram_used_bytes",
       "moosefs_cpu_usage_percent", "moosefs_cpu_system_percent",
       "moosefs_cpu_user_percent", "moosefs_total_space_bytes",
       "moosefs_free_space_bytes", "moosefs_trash_space_bytes",
       "moosefs_total_objects", "moosefs_directories", "moosefs_files",
       "moosefs_chunks" >>

\* The four gauges labelled (ip, server_id).
ChunkserverGauges ==
    << "moosefs_chunkserver_chunks", "moosefs_chunkserver_disk_used_bytes",
       "moosefs_chunkserver_disk_total_bytes",
       "moosefs_chunkserver_disk_usage_percent" >>

\* The two gauges labelled (ip).
IoGauges ==
    << "moosefs_chunkserver_read_speed_bytes_per_second",
       "moosefs_chunkserver_write_speed_bytes_per_second" >>

Unlabelled == Range(SystemGauges)

Labelled == Range(ChunkserverGauges) \cup Range(IoGauges)

AllGauges == Unlabelled \cup Labelled

\* The registry after __init__: a gauge without labels has its one sample,
\* at 0, from construction; a gauge with labels has no child until labels()
\* is first called with that label tuple.
NewRegistry ==
    [m \in AllGauges |-> IF m \in Unlabelled THEN (<< >> :> "0") ELSE << >>]

\* gauge.labels(...): the child of label tuple l, created at 0 if it is new.
GaugeLabels(r, m, l) ==
    IF l \in DOMAIN r[m] THEN r ELSE [r EXCEPT ![m] = (l :> "0") @@ @]

\* What set(v) is not: a variant that drops the gauge's other children,
\* and child.inc(v), which adds v to the value.
GaugeSetPruning(r, m, l, v) == [r EXCEPT ![m] = (l :> v)]

GaugeInc(r, m, l, v) == [r EXCEPT ![m] = (l :> Plus(@[l], v)) @@ @]

\* child.set(v)
GaugeSet(r, m, l, v) == [r EXCEPT ![m] = (l :> v) @@ @]

\* gauge.set(v) and gauge.labels(...).set(v), as one step.
GaugeWrite(r, w) == GaugeSet(GaugeLabels(r, w.m, w.l), w.m, w.l, w.v)

\* A variant that makes the writes ws[i..] from the last to the first.
RECURSIVE ApplyWritesReversed(_, _, _)
ApplyWritesReversed(r, ws, i) ==
    IF i > Len(ws) THEN r ELSE GaugeWrite(ApplyWritesReversed(r, ws, i + 1), ws[i])

\* The registry after the writes ws[i..] in order.
RECURSIVE ApplyWrites(_, _, _)
ApplyWrites(r, ws, i) ==
    IF i > Len(ws) THEN r ELSE ApplyWrites(GaugeWrite(r, ws[i]), ws, i + 1)

---------------------------------------------------------------------------
(* _execute_command *)

NoOutput == [some |-> FALSE, text |-> ""]

ErrorRecord(msg) == [level |-> "error", msg |-> msg]

\* A variant of _execute_command that returns stdout whatever the exit
\* status is.
ExecuteCommandAnyStatus(res) ==
    CASE res.kind = "exit" ->
            [output |-> [some |-> TRUE, text |-> res.stdout], logs |-> << >>]
      [] res.kind = "timeout" ->
            [output |-> NoOutput, logs |-> <<ErrorRecord("Command timed out")>>]
      [] res.kind = "error" ->
            [output |-> NoOutput, logs |-> <<ErrorRecord("Command execution error")>>]

\* res is what subprocess.run did: [kind, rc, stdout] with kind "exit" (the
\* process ended with status rc), "timeout" (TimeoutExpired) or "error"
\* (any other exception, e.g. the spawn failing).
\* The result: the output (None: some = FALSE) and the records logged.
ExecuteCommand(res) ==
    CASE res.kind = "exit" ->
            [output |-> IF res.rc = 0 THEN [some |-> TRUE, text |-> res.stdout]
                        ELSE NoOutput,
             logs   |-> << >>]
      [] res.kind = "timeout" ->
            [output |-> NoOutput, logs |-> <<ErrorRecord("Command timed out")>>]
      [] res.kind = "error" ->
            [output |-> NoOutput, logs |-> <<ErrorRecord("Command execution error")>>]

\* A variant of the test that takes None alone for a failure
\* ("output is None").
NotOutputNone(o) == ~o.some

\* Python's "not output": None or the empty string.
NotOutput(o) == ~o.some \/ o.text = ""

---------------------------------------------------------------------------
(* collect_system_metrics *)

MetricsMap ==
    << [name |-> "version", pattern |-> "master version\\s+:\\s+(\\S+)",
        conv |-> "float", gauge |-> "moosefs_master_version"],
       [name |-> "ram_used", pattern |-> "RAM used\\s+:\\s+(\\d+)\\s*MiB",
        conv |-> "int_mib", gauge |-> "moosefs_ram_used_bytes"],
       [name |-> "cpu_total", pattern |-> "CPU used\\s+:\\s+(\\d+\\.\\d+)%",
        conv |-> "float", gauge |-> "moosefs_cpu_usage_percent"],
       [name |-> "cpu_system", pattern |-> "CPU used \\(system\\)\\s+:\\s+(\\d+\\.\\d+)%",
        conv |-> "float", gauge |-> "moosefs_cpu_system_percent"],
       [name |-> "cpu_user", pattern |-> "CPU used \\(user\\)\\s+:\\s+(\\d+\\.\\d+)%",
        conv |-> "float", gauge |-> "moosefs_cpu_user_percent"],
       [name |-> "total_space", pattern |-> "total space\\s+:\\s+(\\d+\\.\\d+)\\s*TiB",
        conv |-> "float_tib", gauge |-> "moosefs_total_space_bytes"],
       [name |-> "free_space", pattern |-> "free space\\s+:\\s+(\\d+\\.\\d+)\\s*TiB",
        conv |-> "float_tib", gauge |-> "moosefs_free_space_bytes"],
       [name |-> "trash_space", pattern |-> "trash space\\s+:\\s+(\\d+)\\s*MiB",
        conv |-> "int_mib", gauge |-> "moosefs_trash_space_bytes"],
       [name |-> "total_objects", pattern |-> "all fs objects\\s+:\\s+(\\d+)",
        conv |-> "int", gauge |-> "moosefs_total_objects"],
       [name |-> "directories", pattern |-> "directories\\s+:\\s+(\\d+)",
        conv |-> "int", gauge |-> "moosefs_directories"],
       [name |-> "files", pattern |-> "files\\s+:\\s+(\\d+)",
        conv |-> "int", gauge |-> "moosefs_files"],
       [name |-> "chunks", pattern |-> "chunks\\s+:\\s+(\\d+)",
        conv |-> "int", gauge |-> "moosefs_chunks"] >>

Did(writes, logs) == [writes |-> writes, logs |-> logs]

\* A variant of the try block that sets the gauge to 0 when the converter
\* raises.
RuleSetPlaceholder(rule, c) ==
    IF c.ok THEN Did(<<[m |-> rule.gauge, l |-> << >>, v |-> c.v]>>, << >>)
    ELSE Did(<<[m |-> rule.gauge, l |-> << >>, v |-> "0"]>>,
             <<[level |-> "warning", msg |-> "Error processing " \o rule.name]>>)

\* The try block of one rule whose pattern matched, c being what the
\* converter made of the captured text: gauge.set(value), or the warning of
\* the except clause.
RuleSet(rule, c) ==
    IF c.ok THEN Did(<<[m |-> rule.gauge, l |-> << >>, v |-> c.v]>>, << >>)
    ELSE Did(<< >>, <<[level |-> "warning", msg |-> "Error processing " \o rule.name]>>)

\* A variant of the loop's turn that resets the gauge of a rule whose
\* pattern is not found.
RuleStepReset(rule, match) ==
    IF match.ok THEN RuleSet(rule, Convert(rule.conv, match.groups[1]))
    ELSE Did(<<[m |-> rule.gauge, l |-> << >>, v |-> "0"]>>, << >>)

\* One turn of the loop over metrics_map, match being what re.search found.
RuleStep(rule, match) ==
    IF match.ok THEN RuleSet(rule, Convert(rule.conv, match.groups[1]))
    ELSE Did(<< >>, << >>)

\* A variant of the loop that ends at the first rule whose try block logged
\* a warning.
ThenUnlessWarned(a, b) ==
    IF a.logs # << >> THEN a ELSE Did(a.writes \o b.writes, a.logs \o b.logs)

\* The loop goes on after a rule, whatever the rule did.
Then(a, b) == Did(a.writes \o b.writes, a.logs \o b.logs)

\* The loop over metrics_map from rule k on: the gauge writes and the
\* warnings, in order.
RECURSIVE SystemLoop(_, _)
SystemLoop(output, k) ==
    IF k > Len(MetricsMap) THEN Did(<< >>, << >>)
    ELSE Then(RuleStep(MetricsMap[k], ReSearch(MetricsMap[k].pattern, output)),
              SystemLoop(output, k + 1))

Returns(ret, writes, logs) == [ret |-> ret, writes |-> writes, logs |-> logs]

\* collect_system_metrics after _execute_command gave ex.
SystemBody(ex, loop) ==
    IF NotOutput(ex.output) THEN Returns(FALSE, << >>, ex.logs)
    ELSE Returns(TRUE, loop.writes, ex.logs \o loop.logs)

\* collect_system_metrics given what the command did:
\* [ret: the value returned, writes: the gauge writes in order, logs].
CollectSystemRun(res) ==
    SystemBody(ExecuteCommand(res), SystemLoop(ExecuteCommand(res).output.text, 1))

---------------------------------------------------------------------------
(* collect_chunkserver_metrics and collect_io_metrics *)

ChunkserverPattern ==
    "(\\d+\\.\\d+\\.\\d+\\.\\d+)\\s+\\d+\\s+(\\d+)\\s+[-]\\s+\\d+\\.\\d+\\.\\d+\\s+\\d+\\s+\\w+\\s+\\w+\\s+(\\d+)\\s+(\\d+\\.\\d+)\\s*GiB\\s+(\\d+)\\s*GiB\\s+(\\d+\\.\\d+)%"

IoPattern ==
    "(\\d+\\.\\d+\\.\\d+\\.\\d+):\\d+:.* (\\d+\\.\\d+)\\s*GiB/s\\s+(\\d+\\.\\d+)\\s*MiB/s"

\* The writes of one row: the converted values vs all computed first, then
\* gauges[i].labels(labels).set(vs[i]) for each; a conversion that raises
\* leaves the loop before any write of the row (ok = FALSE).
RowWrites(gauges, labels, vs) ==
    IF \A i \in DOMAIN vs : vs[i].ok
    THEN [ok |-> TRUE,
          writes |-> [i \in DOMAIN gauges |-> [m |-> gauges[i], l |-> labels, v |-> vs[i].v]]]
    ELSE [ok |-> FALSE, writes |-> << >>]

\* A variant of the row's conversions that takes the used space for MiB.
ChunkserverRowMiB(line) ==
    RowWrites(ChunkserverGauges, <<line[1], line[2]>>,
              << Convert("int", line[3]), Convert("float_mib", line[4]),
                 Convert("int_gib", line[5]), Convert("float", line[6]) >>)

\* The body of the loop of collect_chunkserver_metrics for one findall tuple
\* (ip, server_id, chunks, used, total, used_percent).
ChunkserverRow(line) ==
    RowWrites(ChunkserverGauges, <<line[1], line[2]>>,
              << Convert("int", line[3]), Convert("float_gib", line[4]),
                 Convert("int_gib", line[5]), Convert("float", line[6]) >>)

\* A variant of the row's writes that sets the read speed on the used-space
\* gauge of the chunkserver collector.
IoRowIntoInventory(line) ==
    RowWrites(<<ChunkserverGauges[2], IoGauges[2]>>, <<line[1]>>,
              << Convert("float_gib", line[2]), Convert("float_mib", line[3]) >>)

\* The body of the loop of collect_io_metrics for one findall tuple
\* (ip, read_speed_gib, write_speed_mib).
IoRow(line) ==
    RowWrites(IoGauges, <<line[1]>>,
              << Convert("float_gib", line[2]), Convert("float_mib", line[3]) >>)

\* A row and the rows after it: an exception in the row ends the loop, the
\* writes of the rows before it made, and the collector returns False.
RowThen(row, rest) ==
    IF ~row.ok THEN [ret |-> FALSE, writes |-> << >>]
    ELSE [ret |-> rest.ret, writes |-> row.writes \o rest.writes]

\* The loops over the findall tuples from row k on: [ret, writes].
RECURSIVE ChunkserverLoop(_, _)
ChunkserverLoop(lines, k) ==
    IF k > Len(lines) THEN [ret |-> TRUE, writes |-> << >>]
    ELSE RowThen(ChunkserverRow(lines[k]), ChunkserverLoop(lines, k + 1))

RECURSIVE IoLoop(_, _)
IoLoop(lines, k) ==
    IF k > Len(lines) THEN [ret |-> TRUE, writes |-> << >>]
    ELSE RowThen(IoRow(lines[k]), IoLoop(lines, k + 1))

\* A table collector after _execute_command gave ex; msg is what its except
\* clause logs.
TableBody(ex, loop, msg) ==
    IF NotOutput(ex.output) THEN Returns(FALSE, << >>, ex.logs)
    ELSE Returns(loop.ret, loop.writes,
                 ex.logs \o (IF loop.ret THEN << >> ELSE <<ErrorRecord(msg)>>))

CollectChunkserverRun(res) ==
    TableBody(ExecuteCommand(res),
              ChunkserverLoop(ReFindAll(ChunkserverPattern, ExecuteCommand(res).output.text), 1),
              "Chunkserver metrics collection error")

CollectIoRun(res) ==
    TableBody(ExecuteCommand(res),
              IoLoop(ReFindAll(IoPattern, ExecuteCommand(res).output.text), 1),
              "I/O metrics collection error")

---------------------------------------------------------------------------
(* What the mfscli commands may do *)

\* Bounds: rows per table output in Spec, and in RaceSpec.
MaxRows == 3

MaxRaceRows == 1

SigFull ==
    "master version    : 4.10.0\n" \o "RAM used          : 512 MiB\n" \o "CPU used          : 3.50%\n" \o "CPU used (system) : 1.25%\n" \o "CPU used (user)   : 2.25%\n" \o "total space       : 10.00 TiB\n" \o "free space        : 4.50 TiB\n" \o "trash space       : 20 MiB\n" \o "all fs objects    : 3500\n" \o "directories       : 500\n" \o "files             : 3000\n" \o "chunks            : 2900\n"

SigPartial ==
    "master version    : 4.57\n" \o "RAM used          : 2 GiB\n" \o "CPU used          : 7%\n" \o "CPU used (system) : 0.75%\n" \o "CPU used (user)   : 6.00%\n" \o "total space       : 900.00 GiB\n" \o "trash space       : 0 MiB\n" \o "all fs objects    : 4000\n" \o "files             : 3100\n" \o "chunks            : 2950\n"

SigNoise == "can't connect to MFS master\n"

SigTexts == {SigFull, SigPartial, SigNoise, ""}

\* Rows of "mfscli -SCS": two of chunkserver 10.0.0.5, one of 10.0.0.6, and
\* one of 10.0.0.7 whose used-space field is not a number.
ChunkserverRows ==
    << "10.0.0.5 1 000100 - 4.10.0 0 OK OK 1500 120.50 GiB 200 GiB 60.25%",
       "10.0.0.5 1 000100 - 4.10.0 0 OK OK 1600 150.00 GiB 200 GiB 75.00%",
       "10.0.0.6 2 000200 - 4.10.0 0 OK OK 800 50.25 GiB 100 GiB 50.25%",
       "10.0.0.7 3 000300 - 4.10.0 0 OK OK 900 n/a GiB 100 GiB 12.50%" >>

\* Rows of "mfscli -SHD": two disks of 10.0.0.5, one of 10.0.0.6, and one of
\* 10.0.0.7 whose read speed is not a number.
IoRows ==
    << "10.0.0.5:9422:/mnt/hdd1 ok 1.50 GiB/s 20.25 MiB/s",
       "10.0.0.5:9422:/mnt/hdd2 ok 0.25 GiB/s 8.00 MiB/s",
       "10.0.0.6:9422:/mnt/hdd1 ok 2.00 GiB/s 0.50 MiB/s",
       "10.0.0.7:9422:/mnt/hdd1 ok - GiB/s 3.00 MiB/s" >>

RECURSIVE JoinLines(_)
JoinLines(rows) ==
    IF rows = << >> THEN "" ELSE Head(rows) \o "\n" \o JoinLines(Tail(rows))

\* The ways to list k of the rows of pool, none twice.
Listings(pool, k) ==
    {ix \in [1..k -> DOMAIN pool] : \A i, j \in 1..k : ix[i] = ix[j] => i = j}

\* The outputs of at most n rows of pool, in any order.
TableTexts(pool, n) ==
    {JoinLines([i \in DOMAIN ix |-> pool[ix[i]]]) :
        ix \in UNION {Listings(pool, k) : k \in 0..n}}

\* What subprocess.run may do: exit with status 0 and one of texts on stdout,
\* exit with status 1 and one of failtexts on stdout, time out, or raise.
CommandResults(texts, failtexts) ==
    {[kind |-> "exit", rc |-> 0, stdout |-> t] : t \in texts}
    \cup {[kind |-> "exit", rc |-> 1, stdout |-> t] : t \in failtexts}
    \cup {[kind |-> "timeout", rc |-> 0, stdout |-> ""],
          [kind |-> "error", rc |-> 0, stdout |-> ""]}

SystemResults == CommandResults(SigTexts, SigTexts \ {""})

ChunkserverResults ==
    CommandResults(TableTexts(ChunkserverRows, MaxRows), TableTexts(ChunkserverRows, 1) \ {""})

IoResults == CommandResults(TableTexts(IoRows, MaxRows), TableTexts(IoRows, 1) \ {""})

\* Each collector on each thing its command may do.
SystemRuns == [res \in SystemResults |-> CollectSystemRun(res)]

ChunkserverRuns == [res \in ChunkserverResults |-> CollectChunkserverRun(res)]

IoRuns == [res \in IoResults |-> CollectIoRun(res)]

---------------------------------------------------------------------------
(* run() and collect_all_metrics *)

\* metrics_collectors
Collectors == <<"system", "chunkserver", "io">>

\* A variant of the loop that gives the cycle up when a collector fails.
AfterCollectorAbort(c, ret) ==
    IF ~ret THEN "sleep"
    ELSE CASE c = "system"      -> "chunkserver"
           [] c = "chunkserver" -> "io"
           [] c = "io"          -> "sleep"

\* A variant of the loop that calls a collector that failed once more.
AfterCollectorRetry(c, ret) ==
    IF ~ret THEN c
    ELSE CASE c = "system"      -> "chunkserver"
           [] c = "chunkserver" -> "io"
           [] c = "io"          -> "sleep"

\* pc after collector c returned ret: collect_all_metrics calls the next
\* collector of the list whatever ret is (it does not read it), and after
\* the last one run() sleeps.
AfterCollector(c, ret) ==
    CASE c = "system"      -> "chunkserver"
      [] c = "chunkserver" -> "io"
      [] c = "io"          -> "sleep"

NotRun == [c \in Range(Collectors) |-> "not_run"]

Outcome(ret) == IF ret THEN "success" ELSE "failure"

Nothing == [who |-> "none"]

NoScrape == [m |-> "none", samples |-> << >>]

Writing(c) == c \o "_writing"

Returned(c) == c \o "_returned"

Init ==
    /\ pc = "boot"
    /\ reg = NewRegistry
    /\ out = NotRun
    /\ last = Nothing
    /\ todo = << >>
    /\ scraped = NoScrape
    /\ running = {}

\* run() up to the loop: start_http_server(port).
Start ==
    /\ pc = "boot"
    /\ pc' = "system"
    /\ UNCHANGED <<reg, out, last, todo, scraped, running>>

CallRecord(c, res, r) ==
    [who |-> c, res |-> res, ret |-> r.ret, writes |-> r.writes, logs |-> r.logs]

\* Collector c ran as r on command result res, as one step.
Ran(c, res, r) ==
    /\ reg' = ApplyWrites(reg, r.writes, 1)
    /\ out' = [out EXCEPT ![c] = Outcome(r.ret)]
    /\ last' = CallRecord(c, res, r)
    /\ pc' = Returned(c)
    /\ UNCHANGED <<todo, scraped>>

\* Collector c from its call to its return, as one step.
Collect(c, results, runs) ==
    /\ pc = c
    /\ \E res \in results : Ran(c, res, runs[res])
    /\ UNCHANGED running

CollectSystemMetrics == Collect("system", SystemResults, SystemRuns)

CollectChunkserverMetrics == Collect("chunkserver", ChunkserverResults, ChunkserverRuns)

CollectIoMetrics == Collect("io", IoResults, IoRuns)

\* The loop of collect_all_metrics goes on to the next collector.
Advance ==
    /\ last # Nothing
    /\ pc = Returned(last.who)
    /\ pc' = AfterCollector(last.who, last.ret)
    /\ last' = Nothing
    /\ UNCHANGED <<reg, out, todo, scraped, running>>

\* time.sleep(interval) is over: the next cycle.
Wake ==
    /\ pc = "sleep"
    /\ pc' = "system"
    /\ out' = NotRun
    /\ UNCHANGED <<reg, last, todo, scraped, running>>

Next ==
    \/ Start
    \/ CollectSystemMetrics
    \/ CollectChunkserverMetrics
    \/ CollectIoMetrics
    \/ Advance
    \/ Wake

Spec == Init /\ [][Next]_vars

---------------------------------------------------------------------------
(* The same loop with the exposition server's thread: each gauge call of a *)
(* collector is a step of its own, and a scrape may come between any two.  *)

RaceSystemResults == CommandResults({SigFull, ""}, {SigNoise})

RaceChunkserverResults ==
    CommandResults(TableTexts(ChunkserverRows, MaxRaceRows), TableTexts(ChunkserverRows, 1) \ {""})

RaceIoResults ==
    CommandResults(TableTexts(IoRows, MaxRaceRows), TableTexts(IoRows, 1) \ {""})

\* The gauge calls behind write w: labels(...) first when the gauge has
\* labels, then set(value).
CallsOf(w) ==
    (IF w.m \in Labelled THEN <<[op |-> "labels", m |-> w.m, l |-> w.l, v |-> w.v]>> ELSE << >>)
    \o <<[op |-> "set", m |-> w.m, l |-> w.l, v |-> w.v]>>

RECURSIVE GaugeCalls(_, _)
GaugeCalls(ws, i) ==
    IF i > Len(ws) THEN << >> ELSE CallsOf(ws[i]) \o GaugeCalls(ws, i + 1)

\* Collector c starts running as r: its command has ended, its gauge calls
\* are to come.
Called(c, res, r) ==
    /\ last' = CallRecord(c, res, r)
    /\ todo' = GaugeCalls(r.writes, 1)
    /\ pc' = Writing(c)
    /\ UNCHANGED <<reg, out, scraped, running>>

Call(c, results, runs) ==
    /\ pc = c
    /\ \E res \in results : Called(c, res, runs[res])

CallSystem == Call("system", RaceSystemResults, SystemRuns)

CallChunkserver == Call("chunkserver", RaceChunkserverResults, ChunkserverRuns)

CallIo == Call("io", RaceIoResults, IoRuns)

GaugeCalled(r, g) ==
    IF g.op = "labels" THEN GaugeLabels(r, g.m, g.l) ELSE GaugeSet(r, g.m, g.l, g.v)

\* The next gauge call of the running collector.
GaugeCall ==
    /\ todo # << >>
    /\ reg' = GaugeCalled(reg, Head(todo))
    /\ todo' = Tail(todo)
    /\ UNCHANGED <<pc, out, last, scraped, running>>

\* The running collector returns.
Return ==
    /\ last # Nothing
    /\ pc = Writing(last.who)
    /\ todo = << >>
    /\ pc' = Returned(last.who)
    /\ out' = [out EXCEPT ![last.who] = Outcome(last.ret)]
    /\ UNCHANGED <<reg, last, todo, scraped, running>>

\* A scrape, answered by the server thread of start_http_server: it reads the
\* samples of gauge m as they are now.
Scrape ==
    /\ pc # "boot"
    /\ \E m \in AllGauges : scraped' = [m |-> m, samples |-> reg[m]]
    /\ UNCHANGED <<pc, reg, out, last, todo, running>>

RaceNext ==
    \/ Start
    \/ CallSystem
    \/ CallChunkserver
    \/ CallIo
    \/ GaugeCall
    \/ Return
    \/ Advance
    \/ Wake
    \/ Scrape

RaceSpec == Init /\ [][RaceNext]_vars


---------------------------------------------------------------------------
(* The same loop with the command of each collector as steps of its own:   *)
(* subprocess.run spawns the process and waits for it; it returns, or      *)
(* raises, once the process has exited or has been killed and reaped.      *)

\* Where the thread stands while the command of collector c is in flight:
\* Running when the command will end by itself within the timeout, Hanging
\* when it will not.
Running(c) == c \o "_running"

Hanging(c) == c \o "_hanging"

\* A variant of subprocess.run that does not kill the process whose timeout
\* expired: the command stays in flight after TimeoutExpired is raised.
ReapedUnlessTimeout(inflight, c, res) ==
    IF res.kind = "timeout" THEN inflight ELSE inflight \ {c}

\* The commands in flight when subprocess.run(..., timeout=self.timeout)
\* has returned or raised on res for collector c: its process has exited
\* (kind "exit"), or was killed and waited for (TimeoutExpired, any other
\* exception).
Reaped(inflight, c, res) == inflight \ {c}

\* Collector c is called and subprocess.run spawns its command.
Spawn(c) ==
    /\ pc = c
    /\ pc' \in {Running(c), Hanging(c)}
    /\ running' = running \cup {c}
    /\ UNCHANGED <<reg, out, last, todo, scraped>>

SpawnSystem == Spawn("system")

SpawnChunkserver == Spawn("chunkserver")

SpawnIo == Spawn("io")

SpawnError == [kind |-> "error", rc |-> 0, stdout |-> ""]

\* Collector c is called and subprocess.run raises without a process
\* (the spawn fails): the collector logs it and returns False.
SpawnFails(c, runs) ==
    /\ pc = c
    /\ Ran(c, SpawnError, runs[SpawnError])
    /\ UNCHANGED running

SpawnFailsSystem == SpawnFails("system", SystemRuns)

SpawnFailsChunkserver == SpawnFails("chunkserver", ChunkserverRuns)

SpawnFailsIo == SpawnFails("io", IoRuns)

\* The command of collector c ends as res (it exits, or subprocess.run
\* raises something else than TimeoutExpired) and the collector runs to its
\* return.
Finish(c, results, runs) ==
    /\ pc = Running(c)
    /\ \E res \in results :
          /\ res.kind # "timeout"
          /\ Ran(c, res, runs[res])
          /\ running' = Reaped(running, c, res)

FinishSystem == Finish("system", RaceSystemResults, SystemRuns)

FinishChunkserver == Finish("chunkserver", RaceChunkserverResults, ChunkserverRuns)

FinishIo == Finish("io", RaceIoResults, IoRuns)

TimedOut == [kind |-> "timeout", rc |-> 0, stdout |-> ""]

\* A variant of subprocess.run without timeout=: it waits for the command
\* for as long as the command runs.
NoTimeout(c) == FALSE

\* subprocess.run(..., timeout=self.timeout) stops waiting for the command
\* of collector c when self.timeout seconds have passed.
TimeoutExpires(c) == TRUE

\* The command of collector c hangs until the timeout expires:
\* subprocess.run kills it and raises TimeoutExpired, _execute_command logs
\* it and the collector returns False.
TimesOut(c, runs) ==
    /\ pc = Hanging(c)
    /\ TimeoutExpires(c)
    /\ Ran(c, TimedOut, runs[TimedOut])
    /\ running' = Reaped(running, c, TimedOut)

TimesOutSystem == TimesOut("system", SystemRuns)

TimesOutChunkserver == TimesOut("chunkserver", ChunkserverRuns)

TimesOutIo == TimesOut("io", IoRuns)

\* The steps of a collector call in the loop.
LoopCalls ==
    \/ SpawnSystem
    \/ SpawnChunkserver
    \/ SpawnIo
    \/ SpawnFailsSystem
    \/ SpawnFailsChunkserver
    \/ SpawnFailsIo

\* The end of a command: its exit, or the timeout of subprocess.run.
LoopFinishes ==
    \/ FinishSystem
    \/ FinishChunkserver
    \/ FinishIo
    \/ TimesOutSystem
    \/ TimesOutChunkserver
    \/ TimesOutIo

LoopNext ==
    \/ Start
    \/ LoopCalls
    \/ LoopFinishes
    \/ Advance
    \/ Wake

\* The thread of run() goes on running; every command exits or is cut off
\* by the timeout; time.sleep(interval) returns.
LoopFairness ==
    /\ WF_vars(Start \/ LoopCalls \/ Advance)
    /\ WF_vars(LoopFinishes)
    /\ WF_vars(Wake)

LoopSpec == Init /\ [][LoopNext]_vars /\ LoopFairness
---------------------------------------------------------------------------
(* Properties *)

Outcomes == {"success", "failure"}

\* The output the collector of call c got from _execute_command ("" when it
\* got None).
OutputText(c) == ExecuteCommand(c.res).output.text

ExitedWith(text) == [kind |-> "exit", rc |-> 0, stdout |-> text]

CommandFailed(res) == res.kind \in {"timeout", "error"} \/ res.rc # 0

ChunkserverTexts == TableTexts(ChunkserverRows, MaxRows)

IoTexts == TableTexts(IoRows, MaxRows)

\* The positions of t at which re matches.
MatchStarts(re, t) == {s \in 1..Len(t) : MatchesFrom(re, 1, t, s)}

\* The group texts of every match of re in t, wherever it starts.
CapturesWith(re, t) ==
    {MatchObject(re, t, s, GreedyEnds(re, 1, Len(re), t, s)).groups : s \in MatchStarts(re, t)}

CapturesOf(pattern, t) == CapturesWith(ReCompile(pattern), t)

\* The rules of metrics_map whose pattern matches nowhere in a text.
NoMatchRules ==
    [t \in SigTexts |->
        {k \in DOMAIN MetricsMap : MatchStarts(ReCompile(MetricsMap[k].pattern), t) = {}}]

\* The fields of a row: the gauge, the capture group and the conversion.
ChunkserverFields ==
    << [gauge |-> "moosefs_chunkserver_chunks", group |-> 3, conv |-> "int"],
       [gauge |-> "moosefs_chunkserver_disk_used_bytes", group |-> 4, conv |-> "float_gib"],
       [gauge |-> "moosefs_chunkserver_disk_total_bytes", group |-> 5, conv |-> "int_gib"],
       [gauge |-> "moosefs_chunkserver_disk_usage_percent", group |-> 6, conv |-> "float"] >>

IoFields ==
    << [gauge |-> "moosefs_chunkserver_read_speed_bytes_per_second", group |-> 2, conv |-> "float_gib"],
       [gauge |-> "moosefs_chunkserver_write_speed_bytes_per_second", group |-> 3, conv |-> "float_mib"] >>

\* The writes that a match with captures in caps and a conversion that
\* succeeds stand behind: the first nlabels captures are the labels.
FieldJustified(fields, nlabels, caps) ==
    {[m |-> x[1].gauge, l |-> SubSeq(x[2], 1, nlabels), v |-> Convert(x[1].conv, x[2][x[1].group]).v] :
        x \in {y \in Range(fields) \X caps : Convert(y[1].conv, y[2][y[1].group]).ok}}

RuleJustified(rule, t) ==
    FieldJustified(<<[gauge |-> rule.gauge, group |-> 1, conv |-> rule.conv]>>, 0,
                   CapturesOf(rule.pattern, t))

SystemJustified ==
    [t \in SigTexts |-> UNION {RuleJustified(MetricsMap[k], t) : k \in DOMAIN MetricsMap}]

\* The group texts of the matches of the row patterns in each output.
ChunkserverCaptures == [t \in ChunkserverTexts |-> CapturesOf(ChunkserverPattern, t)]

IoCaptures == [t \in IoTexts |-> CapturesOf(IoPattern, t)]

ChunkserverJustified ==
    [t \in ChunkserverTexts |-> FieldJustified(ChunkserverFields, 2, ChunkserverCaptures[t])]

IoJustified == [t \in IoTexts |-> FieldJustified(IoFields, 1, IoCaptures[t])]

JustifiedWrites(c) ==
    CASE c.who = "system"      -> SystemJustified[OutputText(c)]
      [] c.who = "chunkserver" -> ChunkserverJustified[OutputText(c)]
      [] c.who = "io"          -> IoJustified[OutputText(c)]

\* The run of the collector of call c on what its command did.
RunOf(c) ==
    CASE c.who = "system"      -> SystemRuns[c.res]
      [] c.who = "chunkserver" -> ChunkserverRuns[c.res]
      [] c.who = "io"          -> IoRuns[c.res]

SampleIps == {"10.0.0.5", "10.0.0.6", "10.0.0.7"}

Mentions(t, s) == \E i \in 1..(Len(t) - Len(s) + 1) : SubSeq(t, i, i + Len(s) - 1) = s

\* The chunkserver addresses each output mentions.
IpsMentioned ==
    [t \in SigTexts \cup ChunkserverTexts \cup IoTexts |-> {ip \in SampleIps : Mentions(t, ip)}]

Server5 == <<"10.0.0.5", "000100">>

Server6 == <<"10.0.0.6", "000200">>

Server7 == <<"10.0.0.7", "000300">>

\* C1: last-known-good.  In every cycle, the gauge of each rule of
\* metrics_map whose pattern matches nowhere in the output of the cycle's
\* command has after collect_system_metrics the value it had before.
C1_LastKnownGood ==
    [][pc = "system" /\ pc' = Returned("system")
         => \A k \in NoMatchRules[OutputText(last')] :
                reg'[MetricsMap[k].gauge] = reg[MetricsMap[k].gauge]]_vars

\* The output has no "free space" line and free space keeps the value of an
\* earlier cycle, while the chunk count of the output is written.
C1_Witness ==
    /\ pc = Returned("system")
    /\ last.res = ExitedWith(SigPartial)
    /\ reg["moosefs_free_space_bytes"][<< >>] = "4947802324992"
    /\ reg["moosefs_chunks"][<< >>] = "2950"

\* C2: every gauge write of every collector, and every change of a gauge
\* value, carries the value that the rule's or field's conversion gives for
\* the text captured by a match of the pattern in the output of that cycle's
\* command; nothing else changes a gauge.
C2_WritesFromMatchAndConversion ==
    [][/\ \A m \in AllGauges : \A l \in DOMAIN reg'[m] :
              (l \notin DOMAIN reg[m] \/ reg'[m][l] # reg[m][l])
              => /\ last' # Nothing
                 /\ [m |-> m, l |-> l, v |-> reg'[m][l]] \in JustifiedWrites(last')
       /\ last' # Nothing /\ last' # last
              => \A i \in DOMAIN last'.writes : last'.writes[i] \in JustifiedWrites(last')]_vars

\* The version "4.10.0" is matched and not converted: the warning is logged
\* and the version gauge keeps the value of an earlier cycle.
C2_Witness ==
    /\ pc = Returned("system")
    /\ last.res = ExitedWith(SigFull)
    /\ [level |-> "warning", msg |-> "Error processing version"] \in Range(last.logs)
    /\ reg["moosefs_master_version"][<< >>] = "4.57"
    /\ reg["moosefs_ram_used_bytes"][<< >>] = "536870912"

\* C3: a collector whose command times out, exits with a status other than
\* 0 or cannot be spawned returns False and writes no gauge: the registry
\* after the collector is the registry before it.
C3_CommandFailureWritesNothing ==
    [][\A c \in Range(Collectors) :
          pc = c /\ pc' = Returned(c) /\ CommandFailed(last'.res)
          => /\ reg' = reg
             /\ last'.ret = FALSE
             /\ last'.writes = << >>
             /\ out'[c] = "failure"]_vars

\* The -SCS command exits with status 1 and a table on stdout, after a cycle
\* that wrote chunkserver values.
C3_Witness ==
    /\ pc = Returned("chunkserver")
    /\ last.res.kind = "exit" /\ last.res.rc = 1 /\ last.res.stdout # ""
    /\ out["chunkserver"] = "failure"
    /\ Server6 \in DOMAIN reg["moosefs_chunkserver_chunks"]

\* C4: collector isolation.  Every collector call returns an outcome, the
\* collectors after it in the list are called whatever that outcome is (when
\* run() sleeps all three have returned one), and the loop never stops.
C4_CollectorIsolation ==
    /\ \A c \in Range(Collectors) : pc = Returned(c) => out[c] \in Outcomes
    /\ pc \in {"chunkserver", "io"} => out["system"] \in Outcomes
    /\ pc = "io" => out["chunkserver"] \in Outcomes
    /\ pc = "sleep" => \A c \in Range(Collectors) : out[c] \in Outcomes
    /\ ENABLED Next

\* A cycle in which the first and the last collector failed.
C4_Witness ==
    /\ pc = "sleep"
    /\ out = [system |-> "failure", chunkserver |-> "success", io |-> "failure"]

\* C5, as the specification has it: for a table of three rows, two
\* well-formed and one (10.0.0.7) with a used-space field that is not a
\* number, the other three fields of that row are written too.
C5_MalformedFieldAlone ==
    pc = Returned("chunkserver")
    /\ last.res = ExitedWith(JoinLines(<<ChunkserverRows[1], ChunkserverRows[3], ChunkserverRows[4]>>))
    => /\ Server7 \in DOMAIN reg["moosefs_chunkserver_chunks"]
       /\ reg["moosefs_chunkserver_chunks"][Server7] = "900"
       /\ reg["moosefs_chunkserver_disk_total_bytes"][Server7] = "107374182400"
       /\ reg["moosefs_chunkserver_disk_usage_percent"][Server7] = "12.5"

\* C6: the registry never prunes.  A label combination of a gauge stays in
\* every later state, and its value stays what it was through every step
\* except a collector run whose command output mentions its address.
C6_NeverPrunes ==
    [][\A m \in Labelled : \A l \in DOMAIN reg[m] :
          /\ l \in DOMAIN reg'[m]
          /\ (last' = Nothing \/ l[1] \notin IpsMentioned[OutputText(last')])
             => reg'[m][l] = reg[m][l]]_vars

\* The -SCS output lists 10.0.0.5 alone and the values of 10.0.0.6 are
\* still there.
C6_Witness ==
    /\ pc = Returned("chunkserver")
    /\ last.res = ExitedWith(ChunkserverRows[1] \o "\n")
    /\ Server6 \in DOMAIN reg["moosefs_chunkserver_chunks"]
    /\ reg["moosefs_chunkserver_chunks"][Server6] = "800"
    /\ reg["moosefs_chunkserver_disk_used_bytes"][Server6] = "53955526656"

\* C7: idempotence.  After a collector has run, running it once more on the
\* same command result leaves the registry as it is: the same label
\* combinations with the same values.
C7_Idempotent ==
    last # Nothing /\ pc = Returned(last.who)
    => ApplyWrites(reg, RunOf(last).writes, 1) = reg

\* collect_io_metrics has run on two rows of one address.
C7_Witness ==
    /\ pc = Returned("io")
    /\ last.res = ExitedWith(JoinLines(<<IoRows[1], IoRows[2]>>))
    /\ reg["moosefs_chunkserver_read_speed_bytes_per_second"] = (<<"10.0.0.5">> :> "268435456")
    /\ reg["moosefs_chunkserver_write_speed_bytes_per_second"][<<"10.0.0.5">>] = "8388608"

\* Every (gauge, labels, value) that a collector writes on some command
\* result.
EverWritten ==
    UNION ({Range(ChunkserverRuns[res].writes) : res \in ChunkserverResults}
           \cup {Range(IoRuns[res].writes) : res \in IoResults})

\* C8, as the specification has it: every sample of a labelled gauge that a
\* scrape reads, at any point of a collection cycle, is a value that a
\* collector converted from command output and wrote for that gauge and
\* label combination (the value before the write in progress, or the new
\* one).
C8_ScrapeSeesOldOrNew ==
    scraped.m \in Labelled
    => \A l \in DOMAIN scraped.samples :
           [m |-> scraped.m, l |-> l, v |-> scraped.samples[l]] \in EverWritten

\* C9: on the sample inventory line the chunkserver collector makes four
\* writes, all labelled ip = 10.0.0.5, server_id = 000100: chunks = 1500,
\* disk_used_bytes = 120.50 * 1024^3, disk_total_bytes = 200 * 1024^3 and
\* disk_usage_percent = 60.25, and the gauges hold them.
C9_SampleInventoryLine ==
    pc = Returned("chunkserver") /\ last.res = ExitedWith(ChunkserverRows[1] \o "\n")
    => /\ last.writes =
            << [m |-> "moosefs_chunkserver_chunks", l |-> Server5, v |-> "1500"],
               [m |-> "moosefs_chunkserver_disk_used_bytes", l |-> Server5, v |-> "129385889792"],
               [m |-> "moosefs_chunkserver_disk_total_bytes", l |-> Server5, v |-> "214748364800"],
               [m |-> "moosefs_chunkserver_disk_usage_percent", l |-> Server5, v |-> "60.25"] >>
       /\ \A i \in DOMAIN last.writes : reg[last.writes[i].m][Server5] = last.writes[i].v

\* The sample line is the output of the first cycle.
C9_Witness ==
    /\ pc = Returned("chunkserver")
    /\ last.res = ExitedWith(ChunkserverRows[1] \o "\n")
    /\ DOMAIN reg["moosefs_chunkserver_disk_used_bytes"] = {Server5}
    /\ reg["moosefs_chunkserver_disk_used_bytes"][Server5] = "129385889792"

\* What re.search finds of each rule's pattern in each text.
FirstMatches ==
    [t \in SigTexts |-> [k \in DOMAIN MetricsMap |-> ReSearch(MetricsMap[k].pattern, t)]]

\* The rules of metrics_map whose pattern is found in a text and whose
\* converter takes what the first match captured.
ConvertibleRules ==
    [t \in SigTexts |->
        {k \in DOMAIN MetricsMap :
            /\ FirstMatches[t][k].ok
            /\ Convert(MetricsMap[k].conv, FirstMatches[t][k].groups[1]).ok}]

\* C10, as the specification has it: when collect_system_metrics succeeds
\* it makes one write for each rule whose pattern matches the output and
\* none for the others, MiB and TiB scaled to bytes.
C10_OneWritePerMatchingRule ==
    pc = Returned("system") /\ last.ret
    => /\ \A k \in DOMAIN MetricsMap :
              Cardinality({i \in DOMAIN last.writes : last.writes[i].m = MetricsMap[k].gauge})
              = (IF k \in NoMatchRules[OutputText(last)] THEN 0 ELSE 1)
       /\ last.res.stdout = SigFull
              => /\ reg["moosefs_ram_used_bytes"][<< >>] = "536870912"
                 /\ reg["moosefs_total_space_bytes"][<< >>] = "10995116277760"

\* C10, amended: when collect_system_metrics succeeds it makes one write
\* for each rule whose pattern matches the output and whose converter takes
\* the captured text, and none for the other rules (the version rule on
\* "4.10.0" matches and writes nothing); MiB captures are written times
\* 1024^2, TiB captures times 1024^4, percentages and counts as they are.
C10_OneWritePerConvertedMatch ==
    pc = Returned("system") /\ last.ret
    => /\ \A k \in DOMAIN MetricsMap :
              Cardinality({i \in DOMAIN last.writes : last.writes[i].m = MetricsMap[k].gauge})
              = (IF k \in ConvertibleRules[OutputText(last)] THEN 1 ELSE 0)
       /\ last.res.stdout = SigFull
              => /\ [i \in DOMAIN last.writes |-> last.writes[i].v]
                        = << "536870912", "3.5", "1.25", "2.25", "10995116277760",
                             "4947802324992", "20971520", "3500", "500", "3000", "2900" >>
                 /\ \A i \in DOMAIN last.writes :
                        reg[last.writes[i].m][<< >>] = last.writes[i].v

\* The full status output in the first cycle: eleven writes, none for the
\* version.
C10_Witness ==
    /\ pc = Returned("system")
    /\ last.res = ExitedWith(SigFull)
    /\ Len(last.writes) = 11
    /\ reg["moosefs_total_space_bytes"][<< >>] = "10995116277760"
    /\ reg["moosefs_master_version"][<< >>] = "0"


---------------------------------------------------------------------------
(* Properties of the scheduler loop *)

\* The scheduler's states: Idle is the sleep of run(), Collecting is
\* collect_all_metrics.
Idle == pc = "sleep"

Collecting == pc \notin {"boot", "sleep"}

\* The position of collector c in metrics_collectors.
IndexOf(c) == CHOOSE i \in DOMAIN Collectors : Collectors[i] = c

\* A step that invokes collector c.
Invokes(c) == pc = c /\ pc' # c

\* In the cycle so far the collectors before c have returned, and neither c
\* nor those after it have been invoked.
TurnOf(c) ==
    \A d \in Range(Collectors) :
        IF IndexOf(d) < IndexOf(c) THEN out[d] \in Outcomes /\ d \notin running
        ELSE out[d] = "not_run"

\* Every step invokes a collector only in its turn, and leaves Collecting
\* only for Idle, after the last collector returned and with an outcome of
\* each of the three.
InOrderOncePerCycle ==
    /\ \A c \in Range(Collectors) : Invokes(c) => TurnOf(c)
    /\ Collecting /\ ~Collecting'
          => /\ Idle'
             /\ pc = Returned("io")
             /\ \A c \in Range(Collectors) : out'[c] \in Outcomes

\* C11, as the specification has it: the scheduler enters Collecting only
\* from Idle, when the timer expires; it leaves Collecting only for Idle
\* after all three collectors returned, each invoked once and in the order
\* system, chunkserver, I/O.
C11_CollectingOnlyOnTimerExpiry ==
    [][/\ ~Collecting /\ Collecting' => Idle /\ pc' = "system" /\ out' = NotRun
       /\ InOrderOncePerCycle]_vars

\* C11, amended: the first cycle starts when run() has started the server,
\* with no timer; every later cycle is entered from Idle when the sleep
\* ends.  The scheduler leaves Collecting only for Idle, after all three
\* collectors returned; within a cycle each collector is invoked once, in
\* the order system, chunkserver, I/O, each after the one before it
\* returned; and Idle and Collecting alternate forever.
C11_SchedulerStateMachine ==
    /\ [][/\ ~Collecting /\ Collecting'
             => /\ pc \in {"boot", "sleep"}
                /\ pc' = "system"
                /\ pc = "sleep" => out' = NotRun
          /\ InOrderOncePerCycle]_vars
    /\ []<>Idle
    /\ []<>Collecting

\* A second cycle begins: the first one failed at the status command and
\* wrote the values of chunkserver 10.0.0.5, and nothing has run yet in this
\* one.
C11_Witness ==
    /\ pc = "system"
    /\ out = NotRun
    /\ reg["moosefs_ram_used_bytes"][<< >>] = "0"
    /\ Server5 \in DOMAIN reg["moosefs_chunkserver_chunks"]

---------------------------------------------------------------------------
(* Properties of the collectors *)

\* What the converter of rule k makes of the first match of its pattern in
\* text t.
Converted(t, k) == Convert(MetricsMap[k].conv, FirstMatches[t][k].groups[1])

Warning(k) == [level |-> "warning", msg |-> "Error processing " \o MetricsMap[k].name]

\* C12: rule independence.  When the status command gives output, the
\* gauge of every rule whose pattern matches and whose capture converts
\* holds the converted value after collect_system_metrics, whatever the
\* rules before it did; the gauge of every other rule holds what it held
\* before; a warning is logged for exactly the rules that matched and did
\* not convert (the version rule on "4.10.0"); and the collector returns
\* True.
C12_RuleIndependence ==
    [][pc = "system" /\ pc' = Returned("system") /\ OutputText(last') # ""
       => /\ last'.ret
          /\ out'["system"] = "success"
          /\ \A k \in DOMAIN MetricsMap :
                /\ reg'[MetricsMap[k].gauge][<< >>] =
                      (IF k \in ConvertibleRules[OutputText(last')]
                       THEN Converted(OutputText(last'), k).v
                       ELSE reg[MetricsMap[k].gauge][<< >>])
                /\ Warning(k) \in Range(last'.logs)
                      <=> /\ k \notin NoMatchRules[OutputText(last')]
                          /\ k \notin ConvertibleRules[OutputText(last')]]_vars

\* The version rule, the first of the table, fails on "4.10.0" and leaves
\* the version of an earlier cycle; the rules after it are written, down to
\* the last one; "free space" was missing in the earlier cycle and is
\* written now.
C12_Witness ==
    /\ pc = Returned("system")
    /\ last.res = ExitedWith(SigFull)
    /\ last.ret
    /\ Warning(1) \in Range(last.logs)
    /\ reg["moosefs_master_version"][<< >>] = "4.57"
    /\ reg["moosefs_free_space_bytes"][<< >>] = "4947802324992"
    /\ reg["moosefs_chunks"][<< >>] = "2900"

\* C13, as the specification has it: a collector whose command timed out,
\* exited with a status other than 0 or could not be spawned has, when it
\* returns its failure outcome, logged an error record in that cycle.
C13_EveryCommandFailureLogged ==
    \A c \in Range(Collectors) :
        pc = Returned(c) /\ CommandFailed(last.res)
        => /\ out[c] = "failure"
           /\ \E i \in DOMAIN last.logs : last.logs[i].level = "error"

\* C14, as the specification has it: as long as no collector has written
\* a metric (its gauge is as __init__ left it), a scrape of the metric,
\* which the server answers from start_http_server on, reads no sample of
\* it, and in particular no 0.
C14_NoValueBeforeFirstWrite ==
    scraped.m \in AllGauges /\ reg[scraped.m] = NewRegistry[scraped.m]
    => scraped.samples = << >>

\* The collectors that are executing: invoked and not yet returned.
Executing == {c \in Range(Collectors) : pc \in {Running(c), Hanging(c)}}

C16_CyclesEndAndRecur ==
    /\ Collecting ~> Idle
    /\ \A c \in Range(Collectors) :
          /\ pc = Hanging(c) ~> (pc = Returned(c) /\ out[c] = "failure")
          /\ []<><<Invokes(c)>>_vars

\* The I/O command hangs in a cycle in which the other two commands failed
\* as well.
C16_Witness ==
    /\ pc = Hanging("io")
    /\ running = {"io"}
    /\ out = [system |-> "failure", chunkserver |-> "failure", io |-> "not_run"]

\* No rule of metrics_map, or no row of the table, matches anywhere in
\* output t of the command of collector c.
NothingMatches(c, t) ==
    CASE c = "system"      -> NoMatchRules[t] = DOMAIN MetricsMap
      [] c = "chunkserver" -> ChunkserverCaptures[t] = {}
      [] c = "io"          -> IoCaptures[t] = {}

\* C17: a collector returns success if and only if its command exited
\* with status 0 within the timeout and printed something.  On status 0 and
\* empty output it returns failure and the registry is unchanged; on output
\* in which no rule and no row matches it returns success and the registry
\* is unchanged.
C17_SuccessIffOutput ==
    [][\A c \in Range(Collectors) :
          pc = c /\ pc' = Returned(c)
          => /\ last'.ret <=> /\ last'.res.kind = "exit"
                              /\ last'.res.rc = 0
                              /\ last'.res.stdout # ""
             /\ out'[c] = (IF last'.ret THEN "success" ELSE "failure")
             /\ last'.res = ExitedWith("")
                   => ~last'.ret /\ last'.writes = << >> /\ reg' = reg
             /\ last'.ret /\ NothingMatches(c, last'.res.stdout)
                   => last'.writes = << >> /\ reg' = reg]_vars

\* The -SCS command printed one line, that of 10.0.0.7 with "n/a" as its
\* used space: no row matches, the collector returns success, and the
\* registry holds the values of an earlier cycle and nothing of 10.0.0.7.
C17_Witness ==
    /\ pc = Returned("chunkserver")
    /\ last.res = ExitedWith(ChunkserverRows[4] \o "\n")
    /\ last.ret
    /\ out["chunkserver"] = "success"
    /\ last.writes = << >>
    /\ DOMAIN reg["moosefs_chunkserver_chunks"] = {Server5}

\* The gauges each collector sets, and the number of labels it gives them.
Owned(c) ==
    CASE c = "system"      -> Unlabelled
      [] c = "chunkserver" -> Range(ChunkserverGauges)
      [] c = "io"          -> Range(IoGauges)

LabelCount(c) ==
    CASE c = "system"      -> 0
      [] c = "chunkserver" -> 2
      [] c = "io"          -> 1

\* C18: disjoint write sets.  The three collectors own 12, 4 and 2 gauges,
\* no gauge twice; every write of a collector run is to a gauge the
\* collector owns, with its labels (none; ip and server_id; ip); and every
\* run, successful or failed, leaves each gauge of the other two
\* collectors as it was.
C18_DisjointWriteSets ==
    [][/\ <<Cardinality(Owned("system")), Cardinality(Owned("chunkserver")),
            Cardinality(Owned("io"))>> = <<12, 4, 2>>
       /\ Cardinality(AllGauges) = 18
       /\ \A c \in Range(Collectors) :
             pc = c /\ pc' = Returned(c)
             => /\ \A i \in DOMAIN last'.writes :
                       /\ last'.writes[i].m \in Owned(c)
                       /\ Len(last'.writes[i].l) = LabelCount(c)
                /\ \A m \in AllGauges \ Owned(c) : reg'[m] = reg[m]]_vars

\* collect_io_metrics has written the speeds of 10.0.0.6; the gauges of
\* the other two collectors hold what those wrote: the RAM of the status
\* output and the inventory of 10.0.0.5 alone.
C18_Witness ==
    /\ pc = Returned("io")
    /\ last.res = ExitedWith(IoRows[3] \o "\n")
    /\ reg["moosefs_chunkserver_read_speed_bytes_per_second"][<<"10.0.0.6">>] = "2147483648"
    /\ reg["moosefs_ram_used_bytes"][<< >>] = "536870912"
    /\ reg["moosefs_chunkserver_disk_used_bytes"] = (Server5 :> "129385889792")

\* The rows of the pool that each table output lists, in the order of the
\* output.
Listed(pool, n) ==
    [t \in TableTexts(pool, n) |->
        CHOOSE ix \in UNION {Listings(pool, k) : k \in 0..n} :
            JoinLines([i \in DOMAIN ix |-> pool[ix[i]]]) = t]

ChunkserverListed == Listed(ChunkserverRows, MaxRows)

IoListed == Listed(IoRows, MaxRows)

\* Of the sample rows, the first three match the row pattern; the first two
\* are of one label combination.  Their labels, chunk counts and read
\* speeds (GiB/s times 1024^3).
IsMatchingRow(r) == r # 4

ChunkserverRowLabels == <<Server5, Server5, Server6>>

ChunkserverRowChunks == <<"1500", "1600", "800">>

IoRowLabels == << <<"10.0.0.5">>, <<"10.0.0.5">>, <<"10.0.0.6">> >>

IoRowReadSpeed == <<"1610612736", "268435456", "2147483648">>

\* The writes ws of a collector, n to a row, to gauge m with values vs, are
\* those of the matching rows among ix in the order of the output, and the
\* gauge holds for each label combination the value of the last row that
\* has it.
LastRowWins(ix, ws, n, m, labels, vs) ==
    /\ Len(ws) = n * Len(SelectSeq(ix, IsMatchingRow))
    /\ \A k \in DOMAIN SelectSeq(ix, IsMatchingRow) :
          /\ ws[n * (k - 1) + 1].m = m
          /\ ws[n * (k - 1) + 1].l = labels[SelectSeq(ix, IsMatchingRow)[k]]
          /\ ws[n * (k - 1) + 1].v = vs[SelectSeq(ix, IsMatchingRow)[k]]
    /\ \A i \in DOMAIN ix :
          /\ IsMatchingRow(ix[i])
          /\ \A j \in DOMAIN ix :
                j > i /\ IsMatchingRow(ix[j]) => labels[ix[j]] # labels[ix[i]]
          => /\ labels[ix[i]] \in DOMAIN reg[m]
             /\ reg[m][labels[ix[i]]] = vs[ix[i]]

\* C19: last row wins.  After a table collector has run on an output, its
\* writes are those of the matching rows in the order of the output, and
\* for each label combination the gauge has one entry, whose value is
\* that of the last row of the output with that label combination, not a
\* sum and not the first.
C19_LastRowWins ==
    /\ pc = Returned("chunkserver") /\ last.ret
          => LastRowWins(ChunkserverListed[last.res.stdout], last.writes, 4,
                         "moosefs_chunkserver_chunks", ChunkserverRowLabels,
                         ChunkserverRowChunks)
    /\ pc = Returned("io") /\ last.ret
          => LastRowWins(IoListed[last.res.stdout], last.writes, 2,
                         "moosefs_chunkserver_read_speed_bytes_per_second",
                         IoRowLabels, IoRowReadSpeed)

\* The -SHD output lists the second disk of 10.0.0.5, then 10.0.0.6, then
\* the first disk of 10.0.0.5: the speeds of 10.0.0.5 are those of the
\* third line.
C19_Witness ==
    /\ pc = Returned("io")
    /\ last.res = ExitedWith(JoinLines(<<IoRows[2], IoRows[3], IoRows[1]>>))
    /\ DOMAIN reg["moosefs_chunkserver_read_speed_bytes_per_second"]
          = {<<"10.0.0.5">>, <<"10.0.0.6">>}
    /\ reg["moosefs_chunkserver_read_speed_bytes_per_second"][<<"10.0.0.5">>] = "1610612736"
    /\ reg["moosefs_chunkserver_write_speed_bytes_per_second"][<<"10.0.0.5">>] = "21233664"
=============================================================================
